---- MODULE Spec2Model ----
(***************************************************************************)
(* go-chef: the two modes of main.go.                                      *)
(*                                                                         *)
(*   runPrepare  walks the working tree, aggregates the imports of every   *)
(*               non-hidden .go file per build constraint and writes the   *)
(*               recipe;                                                   *)
(*   runCook     reads a recipe, writes go.mod, go.sum and one main*.go    *)
(*               per import group, runs 'go build' and removes the         *)
(*               generated files.                                          *)
(*                                                                         *)
(* Strings are sequences of small naturals, ordered as Go orders strings   *)
(* (bytewise, a proper prefix first).  The letters used below:             *)
(*   0 '.'   1 '/'   2 'a'   3 'b'   4 'c'   5 'd'   6 'e'   7 'f'         *)
(*   8 "go" (file suffix)   9 '"'   10 "go:build " (after the two slashes) *)
(*   11 "linux"   12 "windows"   13 any other comment text                 *)
(*   14 "main"   20+i the decimal digit i                                  *)
(***************************************************************************)
EXTENDS Integers, Sequences, FiniteSets, TLC

VARIABLES
  pc,           \* position of the running invocation
  runs,         \* number of invocations started in this session
  tree,         \* working tree: the directory entries the walk can meet
  goMod,        \* go.mod in the working directory
  goSum,        \* go.sum in the working directory
  recipeFile,   \* the file at recipePath
  modContents,  \* runPrepare: modContents
  sumContents,  \* runPrepare: sumContents
  imports,      \* importsBuilder.imports
  modPrefix,    \* importsBuilder.modPrefix
  visited,      \* names of the entries the walk has passed to its callback
  pruned,       \* names of the directories the callback answered SkipDir for
  parsed,       \* names of the files addFile has parsed so far
  pending,      \* importGroups: keys of b.imports the range loop has not met
  groups,       \* importGroups: groups
  err,          \* the error the invocation returned ("" = nil)
  prev,         \* inputs and recipe of the previous completed Prepare
  r,            \* runCook: r, the recipe as unmarshalled
  synth,        \* the main*.go files of the working directory, by name
  goFiles,      \* runCook: goFiles
  built,        \* number of times 'go build' was run
  buildOK,      \* whether 'go build' exited with 0
  cleanupErrs,  \* runCook: cleanupErrs
  removeLog,    \* the calls of os.Remove so far: file and outcome
  joinErr       \* the errors.Join that runCook returned

prepVars == <<tree, modContents, sumContents, imports, modPrefix, visited,
              pruned, parsed, pending, groups, prev>>

cookVars == <<r, synth, goFiles, built, buildOK, cleanupErrs, removeLog, joinErr>>

(***************************************************************************)
(* Bounds                                                                  *)
(***************************************************************************)
MaxEntries == 3   \* entries of the working tree besides the root
MaxRuns == 2      \* invocations in one session
MaxGroups == 2    \* import groups of a recipe given to -cook

(***************************************************************************)
(* strings                                                                 *)
(***************************************************************************)
\* strings.HasPrefix
HasPrefix(s, p) == Len(s) >= Len(p) /\ SubSeq(s, 1, Len(p)) = p

\* strings.HasSuffix
HasSuffix(s, p) ==
  Len(s) >= Len(p) /\ SubSeq(s, Len(s) - Len(p) + 1, Len(s)) = p

\* strings.TrimPrefix
TrimPrefix(s, p) == IF HasPrefix(s, p) THEN SubSeq(s, Len(p) + 1, Len(s)) ELSE s

\* the < of Go strings
StrLess(s, t) ==
  \E k \in 1..(Len(t)) :
     /\ k <= Len(s) + 1
     /\ \A j \in 1..(k - 1) : s[j] = t[j]
     /\ (k = Len(s) + 1 \/ s[k] < t[k])

\* strconv.Quote, as fmt's %q applies it
Quote(s) == <<9>> \o s \o <<9>>

\* strconv.Unquote: the value and whether the literal was a quoted string
Unquote(lit) ==
  IF Len(lit) >= 2 /\ lit[1] = 9 /\ lit[Len(lit)] = 9
  THEN [ok |-> TRUE, val |-> SubSeq(lit, 2, Len(lit) - 1)]
  ELSE [ok |-> FALSE, val |-> <<>>]

\* the prefix without the path separator
newModPrefixNoSlash(modName) == modName

\* fmt.Sprintf("%s/", modName)
newModPrefix(modName) == modName \o <<1>>

(***************************************************************************)
(* The working tree                                                        *)
(***************************************************************************)
ROOT == <<0>>          \* "."
GoSuffix == <<0, 8>>   \* ".go"
Hidden == <<0>>        \* the "." a hidden name starts with

\* the constraint comment prefix of extractBuildConstraints, "//go:build "
buildPrefix == <<1, 1, 10>>

Entry(name, isDir, parent, walkErr, parseOK, comments, lits) ==
  [name |-> name, isDir |-> isDir, parent |-> parent, walkErr |-> walkErr,
   parseOK |-> parseOK, comments |-> comments, lits |-> lits, body |-> 0]

RootEntry == Entry(ROOT, TRUE, <<>>, FALSE, TRUE, <<>>, <<>>)

\* The entries a working tree is made of.  Module paths are "a" and "b".
EntryLib ==
  { \* a.go: unconstrained; imports "b" and "a/b"
    Entry(<<2, 0, 8>>, FALSE, ROOT, FALSE, TRUE, <<>>,
          <<Quote(<<3>>), Quote(<<2, 1, 3>>)>>),
    \* b.go: a plain comment, then //go:build linux; imports "b/a", "b"
    Entry(<<3, 0, 8>>, FALSE, ROOT, FALSE, TRUE,
          <<<<1, 1, 13>>, buildPrefix \o <<11>>>>,
          <<Quote(<<3, 1, 2>>), Quote(<<3>>)>>),
    \* c.go: //go:build linux, then //go:build windows; imports "a", "ab", "a"
    Entry(<<4, 0, 8>>, FALSE, ROOT, FALSE, TRUE,
          <<buildPrefix \o <<11>>, buildPrefix \o <<12>>>>,
          <<Quote(<<2>>), Quote(<<2, 3>>), Quote(<<2>>)>>),
    \* d.go: //go:build windows; imports "a/b" only
    Entry(<<5, 0, 8>>, FALSE, ROOT, FALSE, TRUE,
          <<buildPrefix \o <<12>>>>, <<Quote(<<2, 1, 3>>)>>),
    \* e.go: //go:build windows; no import
    Entry(<<6, 0, 8>>, FALSE, ROOT, FALSE, TRUE,
          <<buildPrefix \o <<12>>>>, <<>>),
    \* f.go: the header does not parse
    Entry(<<7, 0, 8>>, FALSE, ROOT, FALSE, FALSE, <<>>, <<>>),
    \* .a.go: hidden file; imports "c"
    Entry(<<0, 2, 0, 8>>, FALSE, ROOT, FALSE, TRUE, <<>>, <<Quote(<<4>>)>>),
    \* .b: hidden directory
    Entry(<<0, 3>>, TRUE, ROOT, FALSE, TRUE, <<>>, <<>>),
    \* .b/g.go: a file below the hidden directory; imports "d"
    Entry(<<3, 3, 0, 8>>, FALSE, <<0, 3>>, FALSE, TRUE, <<>>, <<Quote(<<5>>)>>),
    \* c: a directory that cannot be read
    Entry(<<4>>, TRUE, ROOT, TRUE, TRUE, <<>>, <<>>),
    \* go: a file without the .go suffix; imports "e"
    Entry(<<8>>, FALSE, ROOT, FALSE, TRUE, <<>>, <<Quote(<<6>>)>>) }

Names(t) == {e.name : e \in t}

Trees ==
  { t \cup {RootEntry} : t \in
      { u \in SUBSET EntryLib :
          /\ Cardinality(u) <= MaxEntries
          /\ \A e \in u : e.parent = ROOT \/ e.parent \in Names(u) } }

\* go.mod: absent, unparsable, without a module directive, or of module m
NoFile == [exists |-> FALSE, parses |-> FALSE, hasModule |-> FALSE,
           module |-> <<>>, text |-> 0]
ModFile(parses, hasModule, m, text) ==
  [exists |-> TRUE, parses |-> parses, hasModule |-> hasModule,
   module |-> m, text |-> text]
\* any other file of text t
TextFile(t) == ModFile(FALSE, FALSE, <<>>, t)

GoMods == { NoFile, TextFile(0), ModFile(TRUE, FALSE, <<>>, 0),
            ModFile(TRUE, TRUE, <<2>>, 0), ModFile(TRUE, TRUE, <<3>>, 0) }
GoSums == { NoFile, TextFile(0) }

(***************************************************************************)
(* importsBuilder                                                          *)
(***************************************************************************)
\* extractBuildConstraints: the first comment that starts with buildPrefix
RECURSIVE extractBuildConstraints(_)
extractBuildConstraints(comments) ==
  IF comments = <<>> THEN <<>>
  ELSE IF HasPrefix(Head(comments), buildPrefix)
       THEN TrimPrefix(Head(comments), buildPrefix)
       ELSE extractBuildConstraints(Tail(comments))

\* the loop of addFile over file.Imports: the set ig after the loop, or the
\* set as it stood when an Unquote failed
RECURSIVE addImports(_, _, _)
addImports(ig, lits, prefix) ==
  IF lits = <<>> THEN [ok |-> TRUE, ig |-> ig]
  ELSE LET u == Unquote(Head(lits)) IN
       IF ~u.ok THEN [ok |-> FALSE, ig |-> ig]
       ELSE addImports(IF ~HasPrefix(u.val, prefix) THEN ig \cup {u.val} ELSE ig,
                       Tail(lits), prefix)

\* b.imports after addFile(file), and whether addFile returned nil
addFile(b, prefix, file) ==
  IF ~file.parseOK THEN [ok |-> FALSE, imports |-> b]
  ELSE IF Len(file.lits) = 0 THEN [ok |-> TRUE, imports |-> b]
  ELSE LET bc == extractBuildConstraints(file.comments)
           had == bc \in DOMAIN b
           res == addImports(IF had THEN b[bc] ELSE {}, file.lits, prefix)
           stored == [k \in DOMAIN b \cup {bc} |-> IF k = bc THEN res.ig ELSE b[k]]
       IN  IF res.ok THEN [ok |-> TRUE, imports |-> stored]
           \* the map of an existing key was changed in place
           ELSE [ok |-> FALSE, imports |-> IF had THEN stored ELSE b]

\* slices.Sort(pkgs): insertion sort (what pdqsort does below 12 elements)
RECURSIVE insertOrdered(_, _)
insertOrdered(data, j) ==
  IF j > 1 /\ StrLess(data[j], data[j - 1])
  THEN insertOrdered([data EXCEPT ![j] = data[j - 1], ![j - 1] = data[j]], j - 1)
  ELSE data

RECURSIVE sortOrderedFrom(_, _)
sortOrderedFrom(data, i) ==
  IF i > Len(data) THEN data ELSE sortOrderedFrom(insertOrdered(data, i), i + 1)

SortStrings(pkgs) == sortOrderedFrom(pkgs, 2)

\* the comparison with its arguments exchanged
cmpGroupsSwapped(gx, gy) ==
  IF StrLess(gy.BuildConstraints, gx.BuildConstraints) THEN -1 ELSE 1

\* the comparison function importGroups passes to slices.SortFunc
cmpGroups(gx, gy) ==
  IF StrLess(gx.BuildConstraints, gy.BuildConstraints) THEN -1 ELSE 1

\* slices.SortFunc(groups, cmp): insertion sort on cmp(a, b) < 0
RECURSIVE insertCmp(_, _)
insertCmp(data, j) ==
  IF j > 1 /\ cmpGroups(data[j], data[j - 1]) < 0
  THEN insertCmp([data EXCEPT ![j] = data[j - 1], ![j - 1] = data[j]], j - 1)
  ELSE data

RECURSIVE sortCmpFrom(_, _)
sortCmpFrom(data, i) ==
  IF i > Len(data) THEN data ELSE sortCmpFrom(insertCmp(data, i), i + 1)

\* the groups as the range loop met them
SortGroupsNone(gs) == gs

SortGroups(gs) == sortCmpFrom(gs, 2)

\* the orders in which a range loop can meet the elements of a map
Orders(S) ==
  { f \in [1..Cardinality(S) -> S] : \A i, j \in DOMAIN f : f[i] = f[j] => i = j }

importGroup(bc, pkgs) == [BuildConstraints |-> bc, Packages |-> pkgs]

(***************************************************************************)
(* The recipe and its JSON form                                            *)
(***************************************************************************)
JNull == [kind |-> "null", items |-> <<>>]
JArray(items) == [kind |-> "array", items |-> items]
JAbsent == [kind |-> "absent", val |-> <<>>]
JString(s) == [kind |-> "string", val |-> s]

\* a nil slice marshals to null
MarshalSlice(items) == IF items = <<>> THEN JNull ELSE JArray(items)

\* importGroup: buildConstraints has omitempty
MarshalGroup(g) ==
  [buildConstraints |->
     IF g.BuildConstraints = <<>> THEN JAbsent ELSE JString(g.BuildConstraints),
   packages |-> MarshalSlice(g.Packages)]

\* json.Marshal(&r)
Marshal(rec) ==
  [importGroups |->
     MarshalSlice([i \in 1..Len(rec.ImportGroups) |-> MarshalGroup(rec.ImportGroups[i])]),
   goMod |-> rec.GoMod, goSum |-> rec.GoSum]

UnmarshalGroup(j) ==
  importGroup(IF j.buildConstraints.kind = "string"
              THEN j.buildConstraints.val ELSE <<>>,
              j.packages.items)

\* json.Unmarshal(recipeJSON, &r) of a well-formed document
Unmarshal(doc) ==
  [ImportGroups |->
     [i \in 1..Len(doc.importGroups.items) |-> UnmarshalGroup(doc.importGroups.items[i])],
   GoMod |-> doc.goMod, GoSum |-> doc.goSum]

\* the file at recipePath: absent, not JSON of a recipe, or a document
NoRecipe == [kind |-> "absent"]
BadRecipe == [kind |-> "malformed"]
RecipeDoc(doc) == [kind |-> "json", doc |-> doc]

(***************************************************************************)
(* runPrepare                                                              *)
(***************************************************************************)
EmptyMap == [k \in {} |-> {}]

NoPrev == [has |-> FALSE, tree |-> {}, goMod |-> NoFile, goSum |-> NoFile,
           recipe |-> NoRecipe]

\* only hidden directories are skipped
IsHiddenDirOnly(e) == HasPrefix(e.name, Hidden) /\ e.name # ROOT /\ e.isDir

\* d.Name() starts with "." and is not "."
IsHidden(e) == HasPrefix(e.name, Hidden) /\ e.name # ROOT

\* the entries WalkDir can pass to the callback next: not met yet, and below
\* a directory that was met and not skipped
Eligible ==
  { e \in tree : /\ e.name \notin visited
                 /\ \/ e.parent = <<>>
                    \/ e.parent \in visited /\ e.parent \notin pruned }

\* the error is noted and the invocation goes on
FailIgnored(msg) == pc' = pc /\ err' = msg

Fail(msg) == pc' = "failed" /\ err' = msg

\* run(): -prepare was given
StartPrepare ==
  /\ pc = "idle" /\ runs < MaxRuns
  /\ pc' = "readMod" /\ runs' = runs + 1
  /\ modContents' = NoFile /\ sumContents' = NoFile
  /\ imports' = EmptyMap /\ modPrefix' = <<>>
  /\ visited' = {} /\ pruned' = {} /\ parsed' = {}
  /\ pending' = {} /\ groups' = <<>>
  /\ UNCHANGED <<tree, goMod, goSum, recipeFile, err, prev>>
  /\ UNCHANGED cookVars

\* read and parse go.mod, take the module path
ReadGoMod ==
  /\ pc = "readMod"
  /\ IF ~goMod.exists THEN Fail("could not read go.mod") /\ UNCHANGED modContents
     ELSE IF ~goMod.parses
          THEN Fail("could not parse go.mod") /\ modContents' = goMod
     ELSE IF ~goMod.hasModule
          \* mf.Module is nil: the dereference panics
          THEN Fail("panic") /\ modContents' = goMod
     ELSE pc' = "readSum" /\ modContents' = goMod /\ UNCHANGED err
  /\ UNCHANGED <<runs, tree, goMod, goSum, recipeFile, sumContents, imports,
                 modPrefix, visited, pruned, parsed, pending, groups, prev>>
  /\ UNCHANGED cookVars

\* read go.sum, create the builder
ReadGoSum ==
  /\ pc = "readSum"
  /\ IF ~goSum.exists
     THEN Fail("could not read go.sum") /\ UNCHANGED <<sumContents, modPrefix>>
     ELSE /\ pc' = "walk" /\ sumContents' = goSum
          /\ modPrefix' = newModPrefix(modContents.module)
          /\ UNCHANGED err
  /\ UNCHANGED <<runs, tree, goMod, goSum, recipeFile, modContents, imports,
                 visited, pruned, parsed, pending, groups, prev>>
  /\ UNCHANGED cookVars

\* WalkDir passes one entry to the callback
WalkStep ==
  /\ pc = "walk"
  /\ \E e \in Eligible :
       /\ visited' = visited \cup {e.name}
       /\ IF IsHidden(e)
          THEN /\ pruned' = IF e.isDir THEN pruned \cup {e.name} ELSE pruned
               /\ UNCHANGED <<pc, err, imports, parsed>>
          ELSE IF e.walkErr
          \* the directory cannot be read: the callback is called with err
          THEN Fail("could not walk dir") /\ UNCHANGED <<pruned, imports, parsed>>
          ELSE IF ~e.isDir /\ HasSuffix(e.name, GoSuffix)
          THEN LET a == addFile(imports, modPrefix, e) IN
               /\ imports' = a.imports
               /\ IF a.ok THEN parsed' = parsed \cup {e.name} /\ UNCHANGED <<pc, err>>
                  ELSE Fail("could not walk dir") /\ UNCHANGED parsed
               /\ UNCHANGED pruned
          ELSE UNCHANGED <<pc, err, pruned, imports, parsed>>
  /\ UNCHANGED <<runs, tree, goMod, goSum, recipeFile, modContents, sumContents,
                 modPrefix, pending, groups, prev>>
  /\ UNCHANGED cookVars

\* WalkDir returned nil: importGroups starts to range over b.imports
WalkDone ==
  /\ pc = "walk" /\ Eligible = {}
  /\ pc' = "range" /\ pending' = DOMAIN imports /\ groups' = <<>>
  /\ UNCHANGED <<runs, tree, goMod, goSum, recipeFile, modContents, sumContents,
                 imports, modPrefix, visited, pruned, parsed, err, prev>>
  /\ UNCHANGED cookVars

\* one iteration of the loop of importGroups: the map gives any key that is
\* left, and the packages of its group in any order
RangeStep ==
  /\ pc = "range"
  /\ \E bc \in pending :
       \E order \in Orders(imports[bc]) :
          /\ groups' = Append(groups, importGroup(bc, SortStrings(order)))
          /\ pending' = pending \ {bc}
  /\ UNCHANGED <<pc, runs, tree, goMod, goSum, recipeFile, modContents,
                 sumContents, imports, modPrefix, visited, pruned, parsed, err, prev>>
  /\ UNCHANGED cookVars

\* the loop is over: sort the groups and return them
SortStep ==
  /\ pc = "range" /\ pending = {}
  /\ groups' = SortGroups(groups)
  /\ pc' = "write"
  /\ UNCHANGED <<runs, tree, goMod, goSum, recipeFile, modContents, sumContents,
                 imports, modPrefix, visited, pruned, parsed, pending, err, prev>>
  /\ UNCHANGED cookVars

\* the recipe runPrepare builds
preparedRecipe ==
  [ImportGroups |-> groups, GoMod |-> modContents, GoSum |-> sumContents]

\* marshal the recipe and write it to recipePath
WriteRecipe ==
  /\ pc = "write"
  /\ \E ok \in BOOLEAN :
       IF ok THEN /\ recipeFile' = RecipeDoc(Marshal(preparedRecipe))
                  /\ pc' = "done" /\ UNCHANGED err
       \* a failed write may have truncated the file
       ELSE Fail("could not write recipe") /\ recipeFile' \in {recipeFile, BadRecipe}
  /\ UNCHANGED <<runs, tree, goMod, goSum, modContents, sumContents, imports,
                 modPrefix, visited, pruned, parsed, pending, groups, prev>>
  /\ UNCHANGED cookVars

(***************************************************************************)
(* Between two runs of Prepare on the same working directory               *)
(***************************************************************************)
Unedited == tree = prev.tree /\ goMod = prev.goMod /\ goSum = prev.goSum

\* the invocation exited with 0; the next one finds what it left
NextRun ==
  /\ pc = "done" /\ runs < MaxRuns
  /\ pc' = "idle"
  /\ prev' = [has |-> TRUE, tree |-> tree, goMod |-> goMod, goSum |-> goSum,
              recipe |-> recipeFile]
  /\ UNCHANGED <<runs, tree, goMod, goSum, recipeFile, modContents, sumContents,
                 imports, modPrefix, visited, pruned, parsed, pending, groups, err>>
  /\ UNCHANGED cookVars

\* the rest of a file changes, its imports and constraint comment do not
EditBody ==
  /\ pc = "idle" /\ prev.has /\ Unedited
  /\ \E e \in tree : /\ ~e.isDir
                     /\ tree' = (tree \ {e}) \cup {[e EXCEPT !.body = 1]}
  /\ UNCHANGED <<pc, runs, goMod, goSum, recipeFile, modContents, sumContents,
                 imports, modPrefix, visited, pruned, parsed, pending, groups,
                 err, prev>>
  /\ UNCHANGED cookVars

\* the header of a file is broken
EditBreak ==
  /\ pc = "idle" /\ prev.has /\ Unedited
  /\ \E e \in tree : /\ ~e.isDir /\ e.parseOK
                     /\ tree' = (tree \ {e}) \cup {[e EXCEPT !.parseOK = FALSE]}
  /\ UNCHANGED <<pc, runs, goMod, goSum, recipeFile, modContents, sumContents,
                 imports, modPrefix, visited, pruned, parsed, pending, groups,
                 err, prev>>
  /\ UNCHANGED cookVars

\* the imports of a hidden file change
EditHidden ==
  /\ pc = "idle" /\ prev.has /\ Unedited
  /\ \E e \in tree : /\ ~e.isDir /\ HasPrefix(e.name, Hidden)
                     /\ tree' = (tree \ {e}) \cup {[e EXCEPT !.lits = <<Quote(<<7>>)>>]}
  /\ UNCHANGED <<pc, runs, goMod, goSum, recipeFile, modContents, sumContents,
                 imports, modPrefix, visited, pruned, parsed, pending, groups,
                 err, prev>>
  /\ UNCHANGED cookVars

\* a requirement of go.mod changes, the module path does not
EditGoMod ==
  /\ pc = "idle" /\ prev.has /\ Unedited
  /\ goMod' = [goMod EXCEPT !.text = 1]
  /\ UNCHANGED <<pc, runs, tree, goSum, recipeFile, modContents, sumContents,
                 imports, modPrefix, visited, pruned, parsed, pending, groups,
                 err, prev>>
  /\ UNCHANGED cookVars

\* go.sum changes
EditGoSum ==
  /\ pc = "idle" /\ prev.has /\ Unedited
  /\ goSum' = [goSum EXCEPT !.text = 1]
  /\ UNCHANGED <<pc, runs, tree, goMod, recipeFile, modContents, sumContents,
                 imports, modPrefix, visited, pruned, parsed, pending, groups,
                 err, prev>>
  /\ UNCHANGED cookVars

(***************************************************************************)
(* runCook                                                                 *)
(***************************************************************************)
NoMap == [k \in {} |-> <<>>]

NoRecipeYet == [ImportGroups |-> <<>>, GoMod |-> NoFile, GoSum |-> NoFile]

\* every group is written to main.go
FilenameSame(i) == <<14>> \o GoSuffix

\* the name of the file of the group at index i (from 0)
Filename(i) ==
  IF i = 0 THEN <<14>> \o GoSuffix ELSE <<14, 20 + i>> \o GoSuffix

Line(t, s) == [t |-> t, s |-> s]

\* mainContent of the group g at index i (from 0), line by line
mainContent(i, g) ==
  (IF g.BuildConstraints # <<>>
   THEN <<Line("//go:build", g.BuildConstraints)>> ELSE <<>>)
  \o <<Line("package main", <<>>), Line("import (", <<>>)>>
  \o [k \in 1..Len(g.Packages) |-> Line("_", Quote(g.Packages[k]))]
  \o <<Line(")", <<>>)>>
  \o (IF i = 0 THEN <<Line("func main() {}", <<>>)>> ELSE <<>>)

\* only the first non-nil error
JoinFirst(errs) ==
  LET some == SelectSeq(errs, LAMBDA e : ~e.nil) IN
  IF some = <<>> THEN <<>> ELSE <<some[1]>>

\* errors.Join: the non-nil errors, nil (<<>>) when there is none
Join(errs) == SelectSeq(errs, LAMBDA e : ~e.nil)

\* run(): -cook was given
StartCook ==
  /\ pc = "idle" /\ runs < MaxRuns
  /\ pc' = "readRecipe" /\ runs' = runs + 1
  /\ UNCHANGED <<goMod, goSum, recipeFile, err>>
  /\ UNCHANGED prepVars /\ UNCHANGED cookVars

\* read the recipe and unmarshal it
ReadRecipe ==
  /\ pc = "readRecipe"
  /\ IF recipeFile.kind = "absent"
     THEN Fail("could not read recipe") /\ UNCHANGED r
     ELSE IF recipeFile.kind = "malformed"
     THEN Fail("could not unmarshal recipe JSON") /\ UNCHANGED r
     ELSE pc' = "writeMod" /\ r' = Unmarshal(recipeFile.doc) /\ UNCHANGED err
  /\ UNCHANGED <<runs, goMod, goSum, recipeFile, synth, goFiles, built, buildOK,
                 cleanupErrs, removeLog, joinErr>>
  /\ UNCHANGED prepVars

\* os.WriteFile("go.mod", r.GoMod): a failed write may have truncated the file
WriteGoMod ==
  /\ pc = "writeMod"
  /\ \/ pc' = "writeSum" /\ goMod' = r.GoMod /\ UNCHANGED err
     \/ Fail("could not write go.mod") /\ goMod' \in {goMod, TextFile(0)}
  /\ UNCHANGED <<runs, goSum, recipeFile>>
  /\ UNCHANGED prepVars /\ UNCHANGED cookVars

\* os.WriteFile("go.sum", r.GoSum)
WriteGoSum ==
  /\ pc = "writeSum"
  /\ \/ pc' = "writeMain" /\ goSum' = r.GoSum /\ UNCHANGED err
     \/ Fail("could not write go.sum") /\ goSum' \in {goSum, TextFile(0)}
  /\ UNCHANGED <<runs, goMod, recipeFile>>
  /\ UNCHANGED prepVars /\ UNCHANGED cookVars

\* one iteration of the loop over r.ImportGroups; Len(goFiles) is i
WriteMain ==
  /\ pc = "writeMain" /\ Len(goFiles) < Len(r.ImportGroups)
  /\ LET i == Len(goFiles)
         g == r.ImportGroups[i + 1]
         filename == Filename(i)
         put(c) == [f \in DOMAIN synth \cup {filename} |->
                      IF f = filename THEN c ELSE synth[f]]
     IN  /\ goFiles' = Append(goFiles, filename)
         /\ \/ synth' = put(mainContent(i, g)) /\ UNCHANGED <<pc, err>>
            \/ Fail("could not write main") /\ synth' \in {synth, put(<<>>)}
  /\ UNCHANGED <<runs, goMod, goSum, recipeFile, r, built, buildOK,
                 cleanupErrs, removeLog, joinErr>>
  /\ UNCHANGED prepVars

\* 'go build' run without waiting for the end of the loop
RunBuildEarly ==
  /\ pc = "writeMain"
  /\ built' = built + 1
  /\ \E ok \in BOOLEAN :
       /\ buildOK' = ok
       /\ IF ok THEN pc' = "cleanup" /\ UNCHANGED err
          ELSE Fail("could not run 'go build' command")
  /\ UNCHANGED <<runs, goMod, goSum, recipeFile, r, synth, goFiles,
                 cleanupErrs, removeLog, joinErr>>
  /\ UNCHANGED prepVars

\* the loop is over: run 'go build -o /dev/null .'
RunBuild ==
  /\ pc = "writeMain" /\ Len(goFiles) = Len(r.ImportGroups)
  /\ built' = built + 1
  /\ \E ok \in BOOLEAN :
       /\ buildOK' = ok
       /\ IF ok THEN pc' = "cleanup" /\ UNCHANGED err
          ELSE Fail("could not run 'go build' command")
  /\ UNCHANGED <<runs, goMod, goSum, recipeFile, r, synth, goFiles,
                 cleanupErrs, removeLog, joinErr>>
  /\ UNCHANGED prepVars

\* one iteration of the cleanup loop; Len(cleanupErrs) files are done
RemoveStep ==
  /\ pc = "cleanup" /\ Len(cleanupErrs) < Len(goFiles)
  /\ LET filename == goFiles[Len(cleanupErrs) + 1] IN
     \E ok \in BOOLEAN :
        /\ cleanupErrs' = Append(cleanupErrs, [nil |-> ok, file |-> filename])
        /\ removeLog' = Append(removeLog, [file |-> filename, ok |-> ok])
        /\ synth' = IF ok /\ filename \in DOMAIN synth
                    THEN [f \in DOMAIN synth \ {filename} |-> synth[f]]
                    ELSE synth
  /\ UNCHANGED <<pc, runs, goMod, goSum, recipeFile, err, r, goFiles, built,
                 buildOK, joinErr>>
  /\ UNCHANGED prepVars

\* return errors.Join(cleanupErrs...)
CookReturn ==
  /\ pc = "cleanup" /\ Len(cleanupErrs) = Len(goFiles)
  /\ joinErr' = Join(cleanupErrs)
  /\ IF Join(cleanupErrs) = <<>> THEN pc' = "done" /\ UNCHANGED err
     ELSE Fail("cleanup")
  /\ UNCHANGED <<runs, goMod, goSum, recipeFile, r, synth, goFiles, built,
                 buildOK, cleanupErrs, removeLog>>
  /\ UNCHANGED prepVars

vars == <<pc, runs, tree, goMod, goSum, recipeFile, modContents, sumContents,
          imports, modPrefix, visited, pruned, parsed, pending, groups, err, prev,
          r, synth, goFiles, built, buildOK, cleanupErrs, removeLog, joinErr>>

CookIdle ==
  /\ r = NoRecipeYet /\ synth = NoMap /\ goFiles = <<>>
  /\ built = 0 /\ buildOK = FALSE
  /\ cleanupErrs = <<>> /\ removeLog = <<>> /\ joinErr = <<>>

PrepareIdle ==
  /\ modContents = NoFile /\ sumContents = NoFile
  /\ imports = EmptyMap /\ modPrefix = <<>>
  /\ visited = {} /\ pruned = {} /\ parsed = {}
  /\ pending = {} /\ groups = <<>>
  /\ prev = NoPrev

\* a session of go-chef -prepare in a source tree
Init ==
  /\ pc = "idle" /\ runs = 0 /\ err = ""
  /\ tree \in Trees /\ goMod \in GoMods /\ goSum \in GoSums
  /\ recipeFile = NoRecipe
  /\ PrepareIdle /\ CookIdle

Next ==
  \/ StartPrepare \/ ReadGoMod \/ ReadGoSum \/ WalkStep \/ WalkDone
  \/ RangeStep \/ SortStep \/ WriteRecipe
  \/ NextRun \/ EditBody \/ EditBreak \/ EditHidden \/ EditGoMod \/ EditGoSum

Spec == Init /\ [][Next]_vars

\* the groups a recipe given to -cook is made of
GroupLib ==
  { importGroup(<<>>, <<<<3>>>>),
    importGroup(<<11>>, <<<<3, 1, 2>>, <<3>>>>),
    importGroup(<<12>>, <<>>) }

GroupSeqs == UNION { [1..n -> GroupLib] : n \in 0..MaxGroups }

CookRecipes ==
  { NoRecipe, BadRecipe }
  \cup { RecipeDoc(Marshal([ImportGroups |-> gs,
                            GoMod |-> ModFile(TRUE, TRUE, <<2>>, 0),
                            GoSum |-> TextFile(0)])) : gs \in GroupSeqs }
  \* "importGroups": [] and no go.mod, go.sum
  \cup { RecipeDoc([importGroups |-> JArray(<<>>),
                    goMod |-> TextFile(0), goSum |-> TextFile(0)]) }

\* go-chef -cook in a directory that holds a recipe
InitCook ==
  /\ pc = "idle" /\ runs = 0 /\ err = ""
  /\ tree = {RootEntry}
  /\ goMod \in {NoFile, TextFile(1)} /\ goSum \in {NoFile, TextFile(1)}
  /\ recipeFile \in CookRecipes
  /\ PrepareIdle /\ CookIdle

NextCook ==
  \/ StartCook \/ ReadRecipe \/ WriteGoMod \/ WriteGoSum \/ WriteMain
  \/ RunBuild \/ RemoveStep \/ CookReturn

SpecCook == InitCook /\ [][NextCook]_vars

(***************************************************************************)
(* Properties of runCook, checked under SpecCook                           *)
(***************************************************************************)
Range(f) == {f[k] : k \in DOMAIN f}

\* os.Remove was called for file f
RemovalAttempted(f) == \E j \in 1..Len(removeLog) : removeLog[j].file = f

BuildFailed == pc = "failed" /\ built > 0 /\ ~buildOK

\* C1: when 'go build' exits non-zero, by the time runCook has returned the
\* removal of every file of goFiles has been attempted, and the build
\* failure is what the caller gets.
C1_CleanupAfterBuildFailure ==
  BuildFailed =>
    /\ err = "could not run 'go build' command"
    /\ \A f \in Range(goFiles) : RemovalAttempted(f)

\* all writes succeeded: the next step of runCook runs 'go build'
AtBuild == pc = "writeMain" /\ Len(goFiles) = Len(r.ImportGroups)

HasEntryPoint(content) ==
  \E k \in 1..Len(content) : content[k].t = "func main() {}"

\* C2: when runCook invokes 'go build', the directory holds the go.mod and
\* go.sum of the recipe and exactly one generated file with func main(),
\* also for a recipe without import groups.
C2_OneEntryPointAtBuild ==
  AtBuild =>
    /\ goMod = r.GoMod /\ goSum = r.GoSum
    /\ Cardinality({f \in DOMAIN synth : HasEntryPoint(synth[f])}) = 1

\* runCook has returned after its cleanup loop
CleanedUp == pc \in {"done", "failed"} /\ built > 0 /\ buildOK

\* the files whose removal failed, in the order of the calls
FailedRemovals ==
  LET failed == SelectSeq(removeLog, LAMBDA e : ~e.ok) IN
  [j \in 1..Len(failed) |-> failed[j].file]

\* C7: the cleanup calls os.Remove once for each file of goFiles, in order,
\* whatever calls fail, and the error runCook returns holds exactly the
\* failed removals: it is nil only when all succeeded.
C7_CleanupRemovesAll ==
  /\ [j \in 1..Len(removeLog) |-> removeLog[j].file]
       = SubSeq(goFiles, 1, Len(removeLog))
  /\ CleanedUp =>
       /\ Len(removeLog) = Len(goFiles)
       /\ \A f \in Range(goFiles) :
            Cardinality({j \in 1..Len(removeLog) : removeLog[j].file = f}) = 1
       /\ [j \in 1..Len(joinErr) |-> joinErr[j].file] = FailedRemovals
       /\ (joinErr = <<>>) <=> (\A j \in 1..Len(removeLog) : removeLog[j].ok)
       /\ (pc = "done") <=> (joinErr = <<>>)

\* both removals fail
C7_Witness ==
  /\ CleanedUp /\ pc = "failed" /\ Len(goFiles) = 2
  /\ ~removeLog[1].ok /\ ~removeLog[2].ok

\* the states of section 4.5, in order
Phase(p) ==
  CASE p = "idle" -> 0
    [] p = "readRecipe" -> 1
    [] p \in {"writeMod", "writeSum", "writeMain"} -> 2
    [] p = "cleanup" -> 4
    [] OTHER -> 5

\* go.mod, go.sum and every generated file are written in full
InputsWritten ==
  /\ goMod = r.GoMod /\ goSum = r.GoSum
  /\ Len(goFiles) = Len(r.ImportGroups)
  /\ \A i \in 1..Len(goFiles) :
       /\ goFiles[i] \in DOMAIN synth
       /\ synth[goFiles[i]] = mainContent(i - 1, r.ImportGroups[i])

EarlyErrors ==
  { "could not read recipe", "could not unmarshal recipe JSON",
    "could not write go.mod", "could not write go.sum", "could not write main" }

\* C8: runCook never goes back to an earlier phase; it writes to the
\* directory only once the recipe is read and unmarshalled; it runs 'go
\* build' only when go.mod, go.sum and all generated files are written; an
\* error of reading, unmarshalling or writing ends the run, failed, with 'go
\* build' never run.
C8_CookOrder ==
  /\ [][Phase(pc') >= Phase(pc)]_vars
  /\ [][(goMod' # goMod \/ goSum' # goSum \/ synth' # synth) =>
          /\ recipeFile.kind = "json" /\ r = Unmarshal(recipeFile.doc)
          /\ Phase(pc) >= 2]_vars
  /\ [][built' # built => InputsWritten]_vars
  /\ [][(err = "" /\ err' \in EarlyErrors) => pc' = "failed" /\ built' = 0]_vars
  /\ []((pc = "failed" /\ err \in EarlyErrors) => built = 0)
  /\ [](pc = "failed" <=> err # "")

C8_Witness ==
  /\ pc = "cleanup" /\ built = 1 /\ Len(r.ImportGroups) = 2 /\ InputsWritten

\* the lines of kind t of a generated file
LinesOf(content, t) == SelectSeq(content, LAMBDA l : l.t = t)

\* the expressions of the //go:build lines
Headers(content) ==
  LET ls == LinesOf(content, "//go:build") IN [k \in 1..Len(ls) |-> ls[k].s]

\* the paths of the blank imports
BlankImports(content) ==
  LET ls == LinesOf(content, "_") IN
  [k \in 1..Len(ls) |-> SubSeq(ls[k].s, 2, Len(ls[k].s) - 1)]

\* C10: when all writes succeeded, a recipe of n groups has given n files
\* of distinct names, each with one clause package main, with a //go:build
\* line of the expression of its group exactly when that is not empty, and
\* with the packages of its group as its blank imports.
C10_OneFilePerGroup ==
  AtBuild =>
    LET n == Len(r.ImportGroups) IN
    /\ Len(goFiles) = n /\ Cardinality(Range(goFiles)) = n
    /\ DOMAIN synth = Range(goFiles)
    /\ \A i \in 1..n :
         LET c == synth[goFiles[i]]
             g == r.ImportGroups[i]
         IN  /\ Len(LinesOf(c, "package main")) = 1
             /\ Headers(c) = IF g.BuildConstraints # <<>>
                             THEN <<g.BuildConstraints>> ELSE <<>>
             /\ BlankImports(c) = g.Packages

C10_Witness ==
  /\ AtBuild /\ Len(r.ImportGroups) = 2
  /\ r.ImportGroups[1].BuildConstraints = <<>>
  /\ r.ImportGroups[2].BuildConstraints # <<>>
  /\ Len(r.ImportGroups[2].Packages) = 2

(***************************************************************************)
(* Properties of runPrepare, checked under Spec                            *)
(***************************************************************************)
\* the import groups of the recipe at recipePath
RecipeGroups == Unmarshal(recipeFile.doc).ImportGroups

StrictlyIncreasing(seq) ==
  \A i, j \in 1..Len(seq) : i < j => StrLess(seq[i], seq[j])

\* C3: in every recipe Prepare has written the groups are strictly
\* increasing by constraint expression and the packages of each group are
\* strictly increasing.
C3_RecipeSorted ==
  recipeFile.kind = "json" =>
    /\ StrictlyIncreasing([i \in 1..Len(RecipeGroups) |->
                             RecipeGroups[i].BuildConstraints])
    /\ \A i \in 1..Len(RecipeGroups) : StrictlyIncreasing(RecipeGroups[i].Packages)

C3_Witness ==
  /\ pc = "done" /\ Len(RecipeGroups) >= 2
  /\ RecipeGroups[1].BuildConstraints = <<>>
  /\ \E i \in 1..Len(RecipeGroups) : Len(RecipeGroups[i].Packages) >= 3

\* The source files of a tree, read off the tree itself: files named *.go
\* that are not hidden and not below a hidden directory.
NameHidden(e) == e.name[1] = 0 /\ e.name # <<0>>

Visible(t, e) ==
  /\ ~NameHidden(e)
  /\ \/ e.parent = <<0>>
     \/ \E d \in t : d.name = e.parent /\ ~NameHidden(d) /\ d.parent = <<0>>

SourceFiles(t) ==
  { e \in t : /\ ~e.isDir /\ Visible(t, e)
              /\ Len(e.name) >= 2
              /\ e.name[Len(e.name) - 1] = 0 /\ e.name[Len(e.name)] = 8 }

IsConstraintComment(c) == Len(c) >= 3 /\ c[1] = 1 /\ c[2] = 1 /\ c[3] = 10

\* the constraint expression of a file: what follows "//go:build " in its
\* first constraint comment
ConstraintOf(e) ==
  LET idx == {k \in 1..Len(e.comments) : IsConstraintComment(e.comments[k])} IN
  IF idx = {} THEN <<>>
  ELSE LET k == CHOOSE m \in idx : \A n \in idx : m <= n
       IN  SubSeq(e.comments[k], 4, Len(e.comments[k]))

\* the import paths of a file, in the order of its import declarations
ImportPaths(e) ==
  [k \in 1..Len(e.lits) |-> SubSeq(e.lits[k], 2, Len(e.lits[k]) - 1)]

\* path p lies below module m: it starts with m followed by "/"
BelowModule(m, p) ==
  Len(p) > Len(m) /\ SubSeq(p, 1, Len(m)) = m /\ p[Len(m) + 1] = 1

\* what the group of expression e has to hold
ExpectedPackages(t, m, e) ==
  { p \in UNION { Range(ImportPaths(f)) :
                    f \in {s \in SourceFiles(t) : ConstraintOf(s) = e} } :
      ~BelowModule(m, p) }

\* C4: the packages of the group of expression e are exactly the imports, not
\* below the module path, of the files whose expression is e; an expression
\* has at most one group, and has one when some file contributes a package.
C4_GroupsAreUnions ==
  pc = "done" =>
    LET gs == RecipeGroups
        m == goMod.module
        exprs == {ConstraintOf(f) : f \in SourceFiles(tree)}
                   \cup {gs[i].BuildConstraints : i \in 1..Len(gs)}
    IN  /\ \A i \in 1..Len(gs) :
             Range(gs[i].Packages) = ExpectedPackages(tree, m, gs[i].BuildConstraints)
        /\ \A e \in exprs :
             /\ Cardinality({i \in 1..Len(gs) : gs[i].BuildConstraints = e}) <= 1
             /\ ExpectedPackages(tree, m, e) # {}
                  => \E i \in 1..Len(gs) : gs[i].BuildConstraints = e

\* module "a"; a file imports "a/b", a file imports "a" itself and "ab"; two
\* files share the expression linux and a third has none
C4_Witness ==
  /\ pc = "done" /\ goMod.module = <<2>>
  /\ \E f \in SourceFiles(tree) : <<2, 1, 3>> \in Range(ImportPaths(f))
  /\ Cardinality({f \in SourceFiles(tree) : ConstraintOf(f) = <<11>>}) = 2
  /\ Len(RecipeGroups) = 2
  /\ {<<2>>, <<2, 3>>, <<3>>} \subseteq Range(RecipeGroups[2].Packages)
  /\ \A i \in 1..2 : <<2, 1, 3>> \notin Range(RecipeGroups[i].Packages)

\* C5: a second Prepare on the unchanged tree, go.mod and go.sum, whatever
\* the order of its walk and of its map iterations, writes the recipe the
\* first one wrote.
C5_PrepareDeterministic ==
  (pc = "done" /\ prev.has /\ Unedited) => recipeFile = prev.recipe

C5_Witness ==
  /\ pc = "done" /\ prev.has /\ Unedited
  /\ Len(RecipeGroups) >= 2
  /\ \E i \in 1..Len(RecipeGroups) : Len(RecipeGroups[i].Packages) >= 2

\* the (file, import paths, constraint expression) tuples of a tree
Tuples(t) == { <<f.name, ImportPaths(f), ConstraintOf(f)>> : f \in SourceFiles(t) }

SameTuples ==
  /\ pc = "done" /\ prev.has
  /\ goMod.module = prev.goMod.module
  /\ Tuples(tree) = Tuples(prev.tree)

\* C6 as claimed: two trees with the same module path and the same tuples
\* give the same recipe, whatever else Prepare reads differs.
C6_RecipeFromTuplesOnly == SameTuples => recipeFile = prev.recipe

\* C6 as amended: with the same module path and tuples the import groups are
\* the same, and with the same go.mod and go.sum text as well the recipes are
\* identical.
C6_RecipeFromTuplesAndTexts ==
  SameTuples =>
    /\ RecipeGroups = Unmarshal(prev.recipe.doc).ImportGroups
    /\ (goMod = prev.goMod /\ goSum = prev.goSum) => recipeFile = prev.recipe

\* the second run saw another file body, or another hidden file
C6_Witness ==
  /\ SameTuples /\ tree # prev.tree
  /\ goMod = prev.goMod /\ goSum = prev.goSum
  /\ Len(RecipeGroups) >= 1

\* the entries at which the walk fails: a source file whose header does not
\* parse, a directory that cannot be read
Failing(t, e) ==
  \/ e \in SourceFiles(t) /\ ~e.parseOK
  \/ e.isDir /\ e.walkErr /\ Visible(t, e)

\* C9: the recipe file changes only in the final write, when every source
\* file has been parsed; a run that failed before that write has left the
\* recipe file as it found it; the walk meets at most one failing entry, and
\* after the failure nothing more is processed.
C9_NoPartialRecipe ==
  /\ [][recipeFile' # recipeFile =>
          /\ pc = "write" /\ err = ""
          /\ \A f \in SourceFiles(tree) : f.parseOK /\ f.name \in parsed]_vars
  /\ []((pc = "failed" /\ err # "could not write recipe")
          => recipeFile = prev.recipe)
  /\ [](Cardinality({e \in tree : e.name \in visited /\ Failing(tree, e)}) <= 1)
  /\ [][err # "" => (visited' = visited /\ parsed' = parsed
                      /\ imports' = imports /\ recipeFile' = recipeFile)]_vars

\* the second run fails at a file, with another file parsed before it and
\* one not yet met; the recipe of the first run is still there
C9_Witness ==
  /\ pc = "failed" /\ err = "could not walk dir"
  /\ prev.has /\ recipeFile = prev.recipe /\ recipeFile.kind = "json"
  /\ parsed # {}
  /\ \E f \in SourceFiles(tree) : f.name \notin visited

\* C11: every group of a recipe Prepare has written holds a package, and
\* has a source file of its expression that imports a package not below the
\* module: a file that contributes no package gives no group.
C11_NoEmptyGroup ==
  pc = "done" =>
    \A i \in 1..Len(RecipeGroups) :
       /\ Len(RecipeGroups[i].Packages) >= 1
       /\ ExpectedPackages(tree, goMod.module,
                           RecipeGroups[i].BuildConstraints) # {}

(***************************************************************************)
(* The entry point of the generated program, checked under SpecCook        *)
(***************************************************************************)
\* C12: for a recipe with at least one group, the generated file that holds
\* func main() has no //go:build line.
C12_EntryPointUnconditional ==
  (AtBuild /\ Len(r.ImportGroups) >= 1) =>
    \A f \in DOMAIN synth :
       HasEntryPoint(synth[f]) => Headers(synth[f]) = <<>>

====
